---------------------------- MODULE Spec2Model ----------------------------
(***************************************************************************)
(* Model of the STT pipeline orchestration layer of zeocare/Pipeline-STT:  *)
(* STTProcessor (src/stt_processor/main.py) with its model handles, its    *)
(* processing_stats accumulator and the straight-line body of              *)
(* process_file, stepped one statement group at a time.                    *)
(*                                                                         *)
(* Durations and times are whole seconds (the code uses Python floats;     *)
(* rounding is not modelled).  average_rtf is an exact reduced fraction.   *)
(* The inference engines, the decoder and the clock are external: their    *)
(* results are drawn nondeterministically (success with some value, or an  *)
(* exception).                                                             *)
(***************************************************************************)
EXTENDS Integers, Sequences, FiniteSets, TLC

\* ------------------------------------------------------------------ bounds
\* process_file calls made on one processor
MaxCalls == 2
\* longest decoded audio, seconds (0 = a zero-length waveform)
MaxDur == 2
\* longest wall-clock processing time of one job, seconds
MaxTime == 2

\* --------------------------------------------------------- configuration
\* STTConfig.max_file_size_mb
max_file_size_mb == 500

\* STTConfig.supported_formats
supported_formats ==
    {".mp3", ".wav", ".m4a", ".flac", ".ogg", ".mp4", ".avi", ".mov"}

\* str.lower() on the suffixes the model uses
Lower(s) ==
    CASE s = ".WAV" -> ".wav"
      [] s = ".TXT" -> ".txt"
      [] OTHER -> s

\* The files a caller may submit: name, whether the path exists, its suffix
\* and its size in MB.
Files ==
    { [name |-> "VISIT.WAV",   exists |-> TRUE,  suffix |-> ".WAV", size_mb |-> 500],
      [name |-> "missing.wav", exists |-> FALSE, suffix |-> ".wav", size_mb |-> 0],
      [name |-> "notes.txt",   exists |-> TRUE,  suffix |-> ".txt", size_mb |-> 1],
      [name |-> "huge.wav",    exists |-> TRUE,  suffix |-> ".wav", size_mb |-> 501] }

NoFile == [name |-> "", exists |-> FALSE, suffix |-> "", size_mb |-> 0]

\* ------------------------------------------------------------ exact ratio
RECURSIVE GCD(_, _)
GCD(a, b) == IF b = 0 THEN a ELSE GCD(b, a % b)

\* n / d for d > 0, as a reduced fraction
Ratio(n, d) ==
    LET g == GCD(n, d) IN [num |-> n \div g, den |-> d \div g]

\* the float 0.0
Zero == [num |-> 0, den |-> 1]

\* ------------------------------------------------------------------ state
VARIABLES
    \* STTProcessor fields
    whisper_model, whisperx_model, align_model, diarize_model,
    processing_stats,
    \* the running process_file call: position and locals
    pc, audio_path, audio_data, audio_duration,
    transcription_result, aligned_result, diarized_result,
    total_processing_time, result, exc, error,
    \* history: what the running call has invoked, the processor as it was
    \* when the call began, and the calls made so far
    events, raisedAt, stats0, handles0, nCalls, okJobs,
    \* the ProcessingJob a caller holds (models.py), or NoJob
    job,
    \* history: how many times each engine was loaded on this processor
    loadCount,
    \* the configuration and its environment, and the construction of the
    \* processor from it
    config, cuda_available, constructed, init_error, device, returned,
    \* the with-block around the processor and the exception leaving it
    scope, escaped,
    \* the stage-native segments handed to the aggregator, and its result
    agg_in, tr

handles == <<whisper_model, whisperx_model, align_model, diarize_model>>
locals  == <<audio_data, audio_duration, transcription_result, aligned_result,
             diarized_result, total_processing_time, result>>
vars == <<whisper_model, whisperx_model, align_model, diarize_model,
          processing_stats, pc, audio_path, audio_data, audio_duration,
          transcription_result, aligned_result, diarized_result,
          total_processing_time, result, exc, error,
          events, raisedAt, stats0, handles0, nCalls, okJobs, job,
          loadCount, config, cuda_available, constructed, init_error, device,
          returned, scope, escaped, agg_in, tr>>

\* what the operations of the processor and of a job leave alone
configuration == <<config, cuda_available, constructed, init_error, device, returned>>
aggregation == <<agg_in, tr>>
rest == <<configuration, scope, escaped, aggregation>>

None == "None"
Loaded == "loaded"

\* an unbound local
NoneVal == [kind |-> "None"]
\* no exception / no raised error
NoExc == [type |-> "None", carries |-> {}]
NoError == [type |-> "None", carries |-> {}, cause |-> NoExc]

\* no ProcessingJob was constructed
NoJob == [status |-> "None", file_path |-> "", started_at |-> None,
          completed_at |-> None, error_message |-> None, result |-> NoneVal]

\* An Optional[int] field: <<>> is Python's None, <<n>> the integer n.
Unset == <<>>

\* STTConfig(): the dataclass defaults of the fields the model follows
DefaultConfig ==
    [whisper_model |-> "large-v3", whisper_device |-> "auto",
     compute_type |-> "float16", min_speakers |-> Unset, max_speakers |-> Unset,
     use_gpu |-> TRUE, language |-> "pt", task |-> "transcribe"]

\* The enumerated sets of validate (config.py:86-96).
WhisperModels == {"tiny", "base", "small", "medium", "large", "large-v2", "large-v3"}
ComputeTypes == {"float16", "int8", "float32"}
Languages == {"pt", "en", "es", "auto"}
Tasks == {"transcribe", "translate"}

\* raise ValueError(...): `about` is the setting the message names
ValueError(about) == [type |-> "ValueError", carries |-> {about}]

\* Python truthiness of an Optional[int]: None and 0 are falsy.
Truthy(o) == o # Unset /\ o[1] # 0

\* STTConfig.validate: the exception it raises, NoExc when it returns.  The
\* checks run in the order of the source; creating temp_dir is not modelled.
validateNoTask(c) ==
    IF c.whisper_model \notin WhisperModels THEN ValueError("whisper_model")
    ELSE IF c.compute_type \notin ComputeTypes THEN ValueError("compute_type")
    ELSE IF c.language \notin Languages THEN ValueError("language")
    ELSE IF Truthy(c.min_speakers) /\ Truthy(c.max_speakers)
            /\ c.min_speakers[1] > c.max_speakers[1]
         THEN ValueError("min_speakers")
    ELSE NoExc

validate(c) ==
    IF c.whisper_model \notin WhisperModels THEN ValueError("whisper_model")
    ELSE IF c.compute_type \notin ComputeTypes THEN ValueError("compute_type")
    ELSE IF c.language \notin Languages THEN ValueError("language")
    ELSE IF c.task \notin Tasks THEN ValueError("task")
    ELSE IF Truthy(c.min_speakers) /\ Truthy(c.max_speakers)
            /\ c.min_speakers[1] > c.max_speakers[1]
         THEN ValueError("min_speakers")
    ELSE NoExc

\* STTConfig.get_device; cuda is torch.cuda.is_available()
get_deviceIgnoringUseGpu(c, cuda) ==
    IF c.whisper_device = "auto"
    THEN IF cuda THEN "cuda" ELSE "cpu"
    ELSE c.whisper_device

get_device(c, cuda) ==
    IF c.whisper_device = "auto"
    THEN IF cuda /\ c.use_gpu THEN "cuda" ELSE "cpu"
    ELSE c.whisper_device

\* no configuration method was called directly
NoReturn == [op |-> "None"]

\* process_file is not running
Ended == {"idle", "returned", "raised"}

\* STTProcessor.__init__ (lines 50-65) and a caller that has done nothing yet
InitProcessor ==
    /\ whisper_model = None
    /\ whisperx_model = None
    /\ align_model = None
    /\ diarize_model = None
    /\ processing_stats = [jobs_processed |-> 0,
                           total_audio_duration |-> 0,
                           total_processing_time |-> 0,
                           average_rtf |-> Zero]
    /\ pc = "idle"
    /\ audio_path = NoFile
    /\ audio_data = NoneVal
    /\ audio_duration = 0
    /\ transcription_result = NoneVal
    /\ aligned_result = NoneVal
    /\ diarized_result = NoneVal
    /\ total_processing_time = 0
    /\ result = NoneVal
    /\ exc = NoExc
    /\ error = NoError
    /\ events = <<>>
    /\ raisedAt = ""
    /\ stats0 = processing_stats
    /\ handles0 = <<None, None, None, None>>
    /\ nCalls = 0
    /\ okJobs = <<>>
    /\ job = NoJob
    /\ loadCount = [e \in {"whisper", "whisperx", "align", "diarize"} |-> 0]
    /\ scope = "none"
    /\ escaped = None

\* STTProcessor(STTConfig()) on a machine without a GPU
Init ==
    /\ InitProcessor
    /\ config = DefaultConfig
    /\ cuda_available = FALSE
    /\ constructed = "ok"
    /\ init_error = validate(config)
    /\ device = get_device(config, cuda_available)
    /\ returned = NoReturn
    /\ agg_in = <<>>
    /\ tr = NoneVal


\* ------------------------------------------------------------ exceptions
\* What str(e) of each exception names.
LoadError      == [type |-> "OSError", carries |-> {}]
NotFoundError  == [type |-> "FileNotFoundError", carries |-> {"file"}]
FormatError    == [type |-> "ValueError", carries |-> {"suffix"}]
TooLargeError  == [type |-> "ValueError", carries |-> {"actual_size", "limit_size"}]
DecodeError    == [type |-> "DecodeError", carries |-> {}]
EngineError    == [type |-> "RuntimeError", carries |-> {}]
NoneTypeError  == [type |-> "TypeError", carries |-> {}]
AttrError      == [type |-> "AttributeError", carries |-> {}]
ParseKeyError  == [type |-> "KeyError", carries |-> {}]
ZeroDivError   == [type |-> "ZeroDivisionError", carries |-> {}]

\* One invocation of an external operation by the running call.
Event(op, ok) == [op |-> op, ok |-> ok]

\* `with self._gpu_memory_manager():` around the operations ops (lines
\* 106-122): with a GPU, the cache is emptied before them and, in the
\* finally clause, emptied again and the garbage collector run; without a
\* GPU neither branch does anything.
BracketNoFinally(ops) ==
    IF cuda_available
    THEN <<Event("empty_cache", TRUE)>> \o ops \o
         (IF ops # <<>> /\ ops[Len(ops)].ok
          THEN <<Event("empty_cache", TRUE), Event("gc_collect", TRUE)>>
          ELSE <<>>)
    ELSE ops

Bracket(ops) ==
    IF cuda_available
    THEN <<Event("empty_cache", TRUE)>> \o ops \o
         <<Event("empty_cache", TRUE), Event("gc_collect", TRUE)>>
    ELSE ops

\* The statement order of process_file's try block: the position that
\* follows p when p completes without raising.
AfterSwapped(p) ==
    CASE p = "load_whisper"  -> "load_whisperx"
      [] p = "load_whisperx" -> "preprocess"
      [] p = "preprocess"    -> "transcribe"
      [] p = "transcribe"    -> "diarize"
      [] p = "diarize"       -> "align"
      [] p = "align"         -> "parse"
      [] p = "parse"         -> "stats"
      [] p = "stats"         -> "log"
      [] p = "log"           -> "returned"

After(p) ==
    CASE p = "load_whisper"  -> "load_whisperx"
      [] p = "load_whisperx" -> "preprocess"
      [] p = "preprocess"    -> "transcribe"
      [] p = "transcribe"    -> "align"
      [] p = "align"         -> "diarize"
      [] p = "diarize"       -> "parse"
      [] p = "parse"         -> "stats"
      [] p = "stats"         -> "log"
      [] p = "log"           -> "returned"

\* Where control goes when a statement of the try block raises e at `site`:
\* the except clause.
Raise(e, site) ==
    /\ exc' = e
    /\ raisedAt' = site
    /\ pc' = "except"

NoRaise == UNCHANGED <<exc, raisedAt>>

\* ----------------------------------------------------------- process_file
\* The places of a running process_file at which the event loop may run
\* another coroutine: the body of the coroutine holds no await, and
\* process_file_sync runs one coroutine to its end (asyncio.run).
AwaitPointsAtStages == {"align"}

AwaitPoints == {}

\* A caller submits a file: process_file begins (lines 367-375).  A second
\* coroutine on the same processor begins only where the first one yields.
ProcessFileStart(f) ==
    /\ constructed = "ok"
    /\ pc \in Ended \cup AwaitPoints
    /\ nCalls < MaxCalls
    /\ nCalls' = nCalls + 1
    /\ audio_path' = f
    /\ pc' = "load_whisper"
    /\ audio_data' = NoneVal
    /\ audio_duration' = 0
    /\ transcription_result' = NoneVal
    /\ aligned_result' = NoneVal
    /\ diarized_result' = NoneVal
    /\ total_processing_time' = 0
    /\ result' = NoneVal
    /\ exc' = NoExc
    /\ error' = NoError
    /\ raisedAt' = ""
    /\ events' = <<>>
    /\ stats0' = processing_stats
    /\ handles0' = handles
    /\ UNCHANGED <<handles, processing_stats, okJobs, job, loadCount, rest>>

\* The engines a processor holds a handle to.
Engines == {"whisper", "whisperx", "align", "diarize"}

\* The handle of engine e.
Handle(e) ==
    CASE e = "whisper"  -> whisper_model
      [] e = "whisperx" -> whisperx_model
      [] e = "align"    -> align_model
      [] e = "diarize"  -> diarize_model

\* loadCount after one more load of each engine of `loaded`
Counted(loaded) ==
    [e \in Engines |-> IF e \in loaded THEN loadCount[e] + 1 ELSE loadCount[e]]

\* The guard of an ensure-loaded method: `if self.<handle> is None`.
NeedsLoadAlways(h) == TRUE

NeedsLoad(h) == h = None

\* _load_whisper_model
LoadWhisperModel ==
    /\ pc = "load_whisper"
    /\ IF ~NeedsLoad(whisper_model)
       THEN /\ pc' = After("load_whisper")
            /\ NoRaise
            /\ UNCHANGED <<whisper_model, events, loadCount>>
       ELSE \/ /\ whisper_model' = Loaded
               /\ loadCount' = Counted({"whisper"})
               /\ events' = events \o Bracket(<<Event("load_whisper", TRUE)>>)
               /\ pc' = After("load_whisper")
               /\ NoRaise
            \/ /\ events' = events \o Bracket(<<Event("load_whisper", FALSE)>>)
               /\ Raise(LoadError, "load_whisper")
               /\ UNCHANGED <<whisper_model, loadCount>>
    /\ UNCHANGED <<whisperx_model, align_model, diarize_model, processing_stats,
                   audio_path, locals, error, stats0, handles0, nCalls, okJobs, job, rest>>

\* The three loads of _load_whisperx_models, in order.
WhisperxLoads == <<"load_whisperx", "load_align", "load_diarize">>
WhisperxEngines == <<"whisperx", "align", "diarize">>

\* _load_whisperx_models: k loads succeed; with k < 3 the next one raises.
LoadWhisperxModels ==
    /\ pc = "load_whisperx"
    /\ IF ~NeedsLoad(whisperx_model)
       THEN /\ pc' = After("load_whisperx")
            /\ NoRaise
            /\ UNCHANGED <<whisperx_model, align_model, diarize_model, events, loadCount>>
       ELSE \E k \in 0..3 :
            /\ whisperx_model' = IF k >= 1 THEN Loaded ELSE whisperx_model
            /\ align_model' = IF k >= 2 THEN Loaded ELSE align_model
            /\ diarize_model' = IF k >= 3 THEN Loaded ELSE diarize_model
            /\ loadCount' = Counted({WhisperxEngines[i] : i \in 1..k})
            /\ events' = events \o Bracket(
                 [i \in 1..(IF k = 3 THEN 3 ELSE k + 1) |->
                    Event(WhisperxLoads[i], i <= k)])
            /\ IF k = 3
               THEN pc' = After("load_whisperx") /\ NoRaise
               ELSE Raise(LoadError, WhisperxLoads[k + 1])
    /\ UNCHANGED <<whisper_model, processing_stats, audio_path, locals, error,
                   stats0, handles0, nCalls, okJobs, job, rest>>

\* _preprocess_audio and the duration computed from its result.
PreprocessAudio ==
    /\ pc = "preprocess"
    /\ IF ~audio_path.exists
       THEN /\ Raise(NotFoundError, "exists_check")
            /\ UNCHANGED <<audio_data, audio_duration, events>>
       ELSE IF Lower(audio_path.suffix) \notin supported_formats
       THEN /\ Raise(FormatError, "format_check")
            /\ UNCHANGED <<audio_data, audio_duration, events>>
       ELSE IF audio_path.size_mb > max_file_size_mb
       THEN /\ Raise(TooLargeError, "size_check")
            /\ UNCHANGED <<audio_data, audio_duration, events>>
       ELSE \/ /\ events' = Append(events, Event("decode", FALSE))
               /\ Raise(DecodeError, "decode")
               /\ UNCHANGED <<audio_data, audio_duration>>
            \/ \E d \in 0..MaxDur :
               /\ events' = Append(events, Event("decode", TRUE))
               /\ audio_data' = [kind |-> "audio", path |-> audio_path.name, dur |-> d]
               /\ audio_duration' = d
               /\ pc' = After("preprocess")
               /\ NoRaise
    /\ UNCHANGED <<handles, processing_stats, audio_path, transcription_result,
                   aligned_result, diarized_result, total_processing_time, result,
                   error, stats0, handles0, nCalls, okJobs, job, loadCount, rest>>

\* _transcribe_with_whisperx(audio_data)
Transcribe ==
    /\ pc = "transcribe"
    /\ IF whisperx_model = None
       THEN /\ events' = events \o Bracket(<<>>)
            /\ Raise(AttrError, "transcribe")
            /\ UNCHANGED transcription_result
       ELSE \/ /\ events' = events \o Bracket(<<Event("transcribe", TRUE)>>)
               /\ transcription_result' = [kind |-> "transcription", of |-> audio_data]
               /\ pc' = After("transcribe")
               /\ NoRaise
            \/ /\ events' = events \o Bracket(<<Event("transcribe", FALSE)>>)
               /\ Raise(EngineError, "transcribe")
               /\ UNCHANGED transcription_result
    /\ UNCHANGED <<handles, processing_stats, audio_path, audio_data, audio_duration,
                   aligned_result, diarized_result, total_processing_time, result,
                   error, stats0, handles0, nCalls, okJobs, job, loadCount, rest>>

\* _align_transcription(transcription_result, audio_data)
\* self.align_model is handed to whisperx.align as it is, None included;
\* what the engine does with it is the engine's: it returns or raises.
Align ==
    /\ pc = "align"
    /\ \/ /\ events' = events \o Bracket(<<Event("align", TRUE)>>)
          /\ aligned_result' = [kind |-> "aligned", of |-> transcription_result]
          /\ pc' = After("align")
          /\ NoRaise
       \/ /\ events' = events \o Bracket(<<Event("align", FALSE)>>)
          /\ Raise(EngineError, "align")
          /\ UNCHANGED aligned_result
    /\ UNCHANGED <<handles, processing_stats, audio_path, audio_data, audio_duration,
                   transcription_result, diarized_result, total_processing_time,
                   result, error, stats0, handles0, nCalls, okJobs, job, loadCount, rest>>

\* _perform_diarization(audio_data, aligned_result)
Diarize ==
    /\ pc = "diarize"
    /\ IF diarize_model = None
       THEN /\ events' = events \o Bracket(<<Event("diarize", FALSE)>>)
            /\ Raise(NoneTypeError, "diarize")
            /\ UNCHANGED diarized_result
       ELSE \/ /\ events' = events \o Bracket(<<Event("diarize", TRUE)>>)
               /\ diarized_result' = [kind |-> "diarized", of |-> aligned_result]
               /\ pc' = After("diarize")
               /\ NoRaise
            \/ /\ events' = events \o Bracket(<<Event("diarize", FALSE)>>)
               /\ Raise(EngineError, "diarize")
               /\ UNCHANGED diarized_result
    /\ UNCHANGED <<handles, processing_stats, audio_path, audio_data, audio_duration,
                   transcription_result, aligned_result, total_processing_time,
                   result, error, stats0, handles0, nCalls, okJobs, job, loadCount, rest>>

\* The clock reading and _parse_results (lines 390-391).
ParseResults ==
    /\ pc = "parse"
    /\ \E t \in 0..MaxTime :
       /\ total_processing_time' = t
       /\ \/ /\ events' = Append(events, Event("parse", TRUE))
             /\ result' = [kind |-> "result", of |-> diarized_result,
                           audio_duration |-> audio_duration, processing_time |-> t]
             /\ pc' = After("parse")
             /\ NoRaise
          \/ /\ events' = Append(events, Event("parse", FALSE))
             /\ Raise(ParseKeyError, "parse")
             /\ UNCHANGED result
    /\ UNCHANGED <<handles, processing_stats, audio_path, audio_data, audio_duration,
                   transcription_result, aligned_result, diarized_result,
                   error, stats0, handles0, nCalls, okJobs, job, loadCount, rest>>

\* The three += of the statistics update (lines 394-396).
UpdatedCountersNoTime(stats, dur, time) ==
    [stats EXCEPT !.jobs_processed = @ + 1,
                  !.total_audio_duration = @ + dur]

UpdatedCounters(stats, dur, time) ==
    [stats EXCEPT !.jobs_processed = @ + 1,
                  !.total_audio_duration = @ + dur,
                  !.total_processing_time = @ + time]

\* The statistics update (lines 393-400): the division raises on a zero
\* cumulative audio duration, after the counters were added to.
UpdateStats ==
    /\ pc = "stats"
    /\ events' = Append(events, Event("stats", TRUE))
    /\ LET c == UpdatedCounters(processing_stats, audio_duration, total_processing_time)
       IN  IF c.total_audio_duration = 0
           THEN /\ processing_stats' = c
                /\ Raise(ZeroDivError, "stats")
           ELSE /\ processing_stats' =
                     [c EXCEPT !.average_rtf =
                        Ratio(c.total_processing_time, c.total_audio_duration)]
                /\ pc' = After("stats")
                /\ NoRaise
    /\ UNCHANGED <<handles, audio_path, locals, error, stats0, handles0, nCalls, okJobs, job, loadCount, rest>>

\* The success log record, whose "rtf" divides by this job's audio duration
\* (lines 402-413), and the return (line 415).
LogAndReturn ==
    /\ pc = "log"
    /\ IF audio_duration = 0
       THEN /\ Raise(ZeroDivError, "log")
            /\ UNCHANGED okJobs
       ELSE /\ pc' = After("log")
            /\ okJobs' = Append(okJobs, <<audio_duration, total_processing_time>>)
            /\ NoRaise
    /\ UNCHANGED <<handles, processing_stats, audio_path, locals, error, events,
                   stats0, handles0, nCalls, job, loadCount, rest>>

\* raise RuntimeError(error_msg) from e, with error_msg built from str(e).
WrapBare(e) == [type |-> e.type, carries |-> e.carries, cause |-> NoExc]

Wrap(e) == [type |-> "RuntimeError", carries |-> e.carries, cause |-> e]

\* Where the except clause leaves process_file.
AfterExceptRetry == IF raisedAt = "transcribe" THEN "transcribe" ELSE "raised"

AfterExcept == "raised"

\* The except clause (lines 417-427).
HandleException ==
    /\ pc = "except"
    /\ error' = Wrap(exc)
    /\ pc' = AfterExcept
    /\ UNCHANGED <<handles, processing_stats, audio_path, locals, exc, raisedAt,
                   events, stats0, handles0, nCalls, okJobs, job, loadCount, rest>>

\* The four handles once cleanup has cleared them (lines 445-448).
ReleasedButDiarize(h) == <<None, None, None, h[4]>>

Released(h) == <<None, None, None, None>>

\* processing_stats once cleanup has run: no statement of cleanup assigns
\* to it (lines 440-455).
StatsAfterCleanupReset(stats) ==
    [jobs_processed |-> 0, total_audio_duration |-> 0,
     total_processing_time |-> 0, average_rtf |-> Zero]

StatsAfterCleanup(stats) == stats

\* STTProcessor.cleanup: clears the handles; empty_cache and gc.collect act
\* on memory the model does not follow.
Cleanup ==
    /\ constructed = "ok"
    /\ pc \in Ended
    /\ whisper_model' = Released(handles)[1]
    /\ whisperx_model' = Released(handles)[2]
    /\ align_model' = Released(handles)[3]
    /\ diarize_model' = Released(handles)[4]
    /\ processing_stats' = StatsAfterCleanup(processing_stats)
    /\ UNCHANGED <<pc, audio_path, locals, exc, error, raisedAt,
                   events, stats0, handles0, nCalls, okJobs, job, loadCount, rest>>

\* Everything of the processor and of its running call.
processor == <<whisper_model, whisperx_model, align_model, diarize_model,
               processing_stats, pc, audio_path, audio_data, audio_duration,
               transcription_result, aligned_result, diarized_result,
               total_processing_time, result, exc, error,
               events, raisedAt, stats0, handles0, nCalls, okJobs, loadCount>>

\* ------------------------------------------------------- scoped lifetime
\* `with STTProcessor(config) as processor:` (transcribe_cli.py:254).  scope
\* is where the with-statement stands; escaped is the exception travelling
\* out of the body, then out of the statement.
BodyExceptions == {"RuntimeError", "KeyboardInterrupt"}

\* __enter__ returns self
Enter ==
    /\ constructed = "ok"
    /\ scope = "none"
    /\ pc = "idle"
    /\ scope' = "entered"
    /\ UNCHANGED <<processor, job, configuration, escaped, aggregation>>

\* A process_file call of the body.
BodyCall(f) ==
    /\ scope = "entered"
    /\ ProcessFileStart(f)

\* The body lets an exception out: the RuntimeError of a failed
\* process_file call it does not catch, or an interrupt between two calls.
BodyRaises(x) ==
    /\ scope = "entered"
    /\ pc \in Ended
    /\ x = "RuntimeError" => pc = "raised"
    /\ scope' = "unwinding"
    /\ escaped' = x
    /\ UNCHANGED <<processor, job, configuration, aggregation>>

\* What __exit__ returns: it has no return statement, so None (falsy).
ExitReturnTrue == TRUE

ExitReturn == FALSE

\* __exit__: runs when the body has ended or let an exception out; a truthy
\* return value would swallow the exception.
Exit ==
    /\ scope \in {"entered", "unwinding"}
    /\ pc \in Ended
    /\ whisper_model' = Released(handles)[1]
    /\ whisperx_model' = Released(handles)[2]
    /\ align_model' = Released(handles)[3]
    /\ diarize_model' = Released(handles)[4]
    /\ processing_stats' = StatsAfterCleanup(processing_stats)
    /\ scope' = "exited"
    /\ escaped' = IF ExitReturn THEN None ELSE escaped
    /\ UNCHANGED <<pc, audio_path, locals, exc, error, raisedAt,
                   events, stats0, handles0, nCalls, okJobs, job, loadCount,
                   configuration, aggregation>>

\* The file the caller's job is about.
JobFiles == {f \in Files : f.name = "VISIT.WAV"}

\* ---------------------------------------------------------- configuration
\* Largest speaker bound a configuration of the model sets.
MaxSpeakers == 2

SpeakerBounds == {Unset} \cup {<<n>> : n \in 0..MaxSpeakers}

\* The configurations a caller may build: for every checked setting a value
\* of the enumerated set and one outside it.
Configs ==
    [whisper_model : {"large-v3", "large-v4"},
     whisper_device : {"auto", "cpu", "cuda"},
     compute_type : {"float16", "float64"},
     min_speakers : SpeakerBounds,
     max_speakers : SpeakerBounds,
     use_gpu : BOOLEAN,
     language : {"pt", "fr"},
     task : {"transcribe", "summarize"}]

\* A caller holds some configuration and no processor yet.
InitConfig ==
    /\ InitProcessor
    /\ config \in Configs
    /\ cuda_available \in BOOLEAN
    /\ constructed = "no"
    /\ init_error = NoExc
    /\ device = None
    /\ returned = NoReturn
    /\ agg_in = <<>>
    /\ tr = NoneVal

\* config.validate() called by the caller
CallValidate ==
    /\ returned' = [op |-> "validate", raised |-> validate(config)]
    /\ UNCHANGED <<processor, job, config, cuda_available, constructed,
                   init_error, device, scope, escaped, aggregation>>

\* config.get_device() called by the caller
CallGetDevice ==
    /\ returned' = [op |-> "get_device",
                    value |-> get_device(config, cuda_available)]
    /\ UNCHANGED <<processor, job, config, cuda_available, constructed,
                   init_error, device, scope, escaped, aggregation>>

\* STTProcessor(config): validate first (line 44); what follows runs only if
\* it returned.
Construct ==
    /\ constructed = "no"
    /\ init_error' = validate(config)
    /\ IF validate(config) # NoExc
       THEN constructed' = "failed" /\ UNCHANGED device
       ELSE /\ constructed' = "ok"
            /\ device' = get_device(config, cuda_available)
    /\ UNCHANGED <<processor, job, config, cuda_available, returned, scope,
                   escaped, aggregation>>

\* The caller, its configuration and the first statements of the calls it
\* submits: the loads are as far as the settings of this section reach.
NextConfig ==
    \/ CallValidate
    \/ CallGetDevice
    \/ Construct
    \/ \E f \in JobFiles : ProcessFileStart(f)
    \/ LoadWhisperModel
    \/ LoadWhisperxModels
    \/ HandleException

SpecConfig == InitConfig /\ [][NextConfig]_vars

\* ------------------------------------------------------ result aggregator
\* _parse_results and TranscriptionResult.__post_init__ as functions of the
\* diarization output.  A text is a sequence of symbols: " " is one
\* whitespace character, any other symbol a run of non-whitespace ones.  An
\* optional key of a segment dict is <<>> when absent, <<v>> when present.
\* Confidences (avg_logprob) and times are integers.

\* Longest segment list handed to the aggregator.
MaxSegs == 3

\* The stage-native segments the diarization output is made of: ordinary
\* ones, one of zero length, one whose end precedes its start, and one
\* without speaker label and avg_logprob.
SegmentPool ==
    { [start |-> 0, end |-> 1, speaker |-> <<"A">>, text |-> <<"oi">>,
       avg_logprob |-> <<-1>>, words |-> << <<[word |-> "oi"]>> >>],
      [start |-> 1, end |-> 3, speaker |-> <<"B">>,
       text |-> <<" ", "bom", " ", "dia", " ">>, avg_logprob |-> <<-2>>,
       words |-> << <<[word |-> "bom"], [word |-> "dia"]>> >>],
      [start |-> 1, end |-> 1, speaker |-> <<"A">>, text |-> <<>>,
       avg_logprob |-> <<-1>>, words |-> <<>>],
      [start |-> 2, end |-> 1, speaker |-> <<"B">>, text |-> <<"oi">>,
       avg_logprob |-> <<-1>>, words |-> <<>>],
      [start |-> 0, end |-> 2, speaker |-> <<>>, text |-> <<"sim">>,
       avg_logprob |-> <<>>, words |-> <<>>],
      [start |-> 2, end |-> 3, speaker |-> <<"A">>, text |-> <<"bom", " ", "dia">>,
       avg_logprob |-> <<0>>, words |-> <<>>] }

\* diarized_result["segments"]
SegmentLists == UNION {[1..n -> SegmentPool] : n \in 0..MaxSegs}

\* dict.get(key, default)
Get(opt, default) == IF opt = <<>> THEN default ELSE opt[1]

\* str.strip()
RECURSIVE LStrip(_)
LStrip(t) == IF t # <<>> /\ Head(t) = " " THEN LStrip(Tail(t)) ELSE t

RECURSIVE RStrip(_)
RStrip(t) ==
    IF t # <<>> /\ t[Len(t)] = " " THEN RStrip(SubSeq(t, 1, Len(t) - 1)) ELSE t

StripLeftOnly(t) == LStrip(t)

Strip(t) == RStrip(LStrip(t))

\* len(str.split()): the number of maximal runs of non-whitespace
WordCount(t) ==
    Cardinality({i \in DOMAIN t : t[i] # " " /\ (i = 1 \/ t[i - 1] = " ")})

\* " ".join(parts)
RECURSIVE Join(_)
Join(parts) ==
    IF parts = <<>> THEN <<>>
    ELSE IF Len(parts) = 1 THEN parts[1]
    ELSE parts[1] \o <<" ">> \o Join(Tail(parts))

\* SpeakerSegment(...) as _parse_results builds it (lines 327-338)
SpeakerSegment(sd) ==
    [start_time |-> sd.start, end_time |-> sd.end,
     speaker_id |-> Get(sd.speaker, "SPEAKER_UNKNOWN"),
     text |-> Strip(sd.text),
     confidence |-> Get(sd.avg_logprob, 0),
     words |-> Get(sd.words, <<>>)]

\* SpeakerSegment.duration
duration(seg) == seg.end_time - seg.start_time

\* f"[{speaker_id}]: {segment.text}": the tag is one run of non-whitespace
FullTextPart(seg) == <<"[" \o seg.speaker_id \o "]:", " ">> \o seg.text

\* sum(...) over the segments
RECURSIVE SumDuration(_)
SumDuration(segs) ==
    IF segs = <<>> THEN 0 ELSE duration(Head(segs)) + SumDuration(Tail(segs))

RECURSIVE SumWeighted(_)
SumWeighted(segs) ==
    IF segs = <<>> THEN 0
    ELSE Head(segs).confidence * duration(Head(segs)) + SumWeighted(Tail(segs))

\* The defaults of the three metric fields (lines 59-62).
DefaultMetrics == [overall_confidence |-> Zero, word_count |-> 0, speaker_count |-> 0]

\* TranscriptionResult(...): the fields given and __post_init__ (lines
\* 64-76).  `given` holds the metric fields as passed to the constructor;
\* __post_init__ overwrites them only inside `if self.segments:`.
TranscriptionResult(segs, text, spks, dur, time, given) ==
    [kind |-> "TranscriptionResult",
     segments |-> segs, full_text |-> text, speakers |-> spks,
     audio_duration |-> dur, processing_time |-> time,
     overall_confidence |->
        IF segs # <<>> /\ SumDuration(segs) > 0
        THEN Ratio(SumWeighted(segs), SumDuration(segs))
        ELSE given.overall_confidence,
     word_count |-> IF segs # <<>> THEN WordCount(text) ELSE given.word_count,
     speaker_count |-> IF segs # <<>> THEN Len(spks) ELSE given.speaker_count]

\* list(a_set): the elements, each once, in an order the set decides
ListsOf(S) ==
    {l \in [1..Cardinality(S) -> S] : \A i, j \in DOMAIN l : l[i] = l[j] => i = j}

\* A caller holds a diarization output.
InitAgg ==
    /\ InitProcessor
    /\ config = DefaultConfig
    /\ cuda_available = FALSE
    /\ constructed = "ok"
    /\ init_error = NoExc
    /\ device = "cpu"
    /\ returned = NoReturn
    /\ \E input \in SegmentLists :
         /\ agg_in = input
         /\ tr = NoneVal

\* The running set of speaker labels (lines 323, 329): the label of every
\* segment, the reserved one included.
SpeakerSetLabelledOnly(segs) ==
    {segs[i].speaker_id : i \in DOMAIN segs} \ {"SPEAKER_UNKNOWN"}

SpeakerSet(segs) == {segs[i].speaker_id : i \in DOMAIN segs}

\* _parse_results(diarized_result, ...)
Aggregate ==
    /\ tr = NoneVal
    /\ LET segs == [i \in DOMAIN agg_in |-> SpeakerSegment(agg_in[i])]
           parts == [i \in DOMAIN segs |-> FullTextPart(segs[i])]
           speakers == SpeakerSet(segs)
       IN  \E spks \in ListsOf(speakers), dur \in 0..MaxDur, time \in 0..MaxTime :
             tr' = TranscriptionResult(segs, Join(parts), spks, dur, time,
                                       DefaultMetrics)
    /\ UNCHANGED <<processor, job, configuration, scope, escaped, agg_in>>

NextAgg == Aggregate

SpecAgg == InitAgg /\ [][NextAgg]_vars

\* ----------------------------------------------------- TranscriptionResult
\* The class is exported by the package: a caller may construct a result
\* itself, call its methods, and, the dataclass not being frozen, assign to
\* its fields.

\* Longest segment list a caller passes to the constructor.
MaxDirectSegs == 2

\* The arguments of a caller's TranscriptionResult(...)
DirectSegments == {SpeakerSegment(sd) : sd \in SegmentPool}
DirectSegmentLists == UNION {[1..n -> DirectSegments] : n \in 0..MaxDirectSegs}
DirectTexts == {<<>>, <<"oi">>, <<"bom", " ", "dia">>}
DirectSpeakers == {<<>>, <<"A">>, <<"A", "B">>, <<"A", "A">>}
GivenMetrics ==
    {DefaultMetrics,
     [overall_confidence |-> Ratio(-1, 2), word_count |-> 7, speaker_count |-> 7]}

\* The speaker identifiers a caller asks for.
SpeakerIds == {"A", "B", "C", "SPEAKER_UNKNOWN"}

\* The elements of a list
Elements(l) == {l[i] : i \in DOMAIN l}

\* TranscriptionResult.get_speaker_segments
get_speaker_segmentsAll(r, id) == r.segments

get_speaker_segments(r, id) ==
    SelectSeq(r.segments, LAMBDA seg : seg.speaker_id = id)

\* TranscriptionResult.get_transcript_by_speaker: a dict keyed by the
\* members of speakers
get_transcript_by_speakerUnspaced(r) ==
    [sp \in Elements(r.speakers) |->
        LET segs == get_speaker_segments(r, sp)
        IN  IF segs = <<>> THEN <<>>
            ELSE segs[1].text \o Join([i \in 1..(Len(segs) - 1) |-> segs[i + 1].text])]

get_transcript_by_speaker(r) ==
    [sp \in Elements(r.speakers) |->
        LET segs == get_speaker_segments(r, sp)
        IN  Join([i \in DOMAIN segs |-> segs[i].text])]

\* SpeakerSegment.to_dict
segment_to_dictNoWords(seg) ==
    [start_time |-> seg.start_time, end_time |-> seg.end_time,
     speaker_id |-> seg.speaker_id, text |-> seg.text,
     confidence |-> seg.confidence, duration |-> duration(seg),
     words |-> <<>>]

segment_to_dict(seg) ==
    [start_time |-> seg.start_time, end_time |-> seg.end_time,
     speaker_id |-> seg.speaker_id, text |-> seg.text,
     confidence |-> seg.confidence, duration |-> duration(seg),
     words |-> seg.words]

\* TranscriptionResult.to_dict, without job_id, created_at, model_version
\* and language, which the model does not follow
to_dict(r) ==
    [audio_duration |-> r.audio_duration,
     processing_time |-> r.processing_time,
     overall_confidence |-> r.overall_confidence,
     word_count |-> r.word_count,
     speaker_count |-> r.speaker_count,
     speakers |-> r.speakers,
     full_text |-> r.full_text,
     segments |-> [i \in DOMAIN r.segments |-> segment_to_dict(r.segments[i])],
     transcript_by_speaker |-> get_transcript_by_speaker(r)]

\* A caller holds no result yet.
InitResult ==
    /\ InitProcessor
    /\ config = DefaultConfig
    /\ cuda_available = FALSE
    /\ constructed = "ok"
    /\ init_error = NoExc
    /\ device = "cpu"
    /\ returned = NoReturn
    /\ agg_in = <<>>
    /\ tr = NoneVal

\* TranscriptionResult(segments=..., full_text=..., speakers=..., ...)
NewResult ==
    /\ tr = NoneVal
    /\ \E segs \in DirectSegmentLists, text \in DirectTexts,
          spks \in DirectSpeakers, dur \in 1..MaxDur, given \in GivenMetrics :
         tr' = TranscriptionResult(segs, text, spks, dur, MaxTime, given)
    /\ UNCHANGED <<processor, job, configuration, scope, escaped, agg_in>>

\* result.get_speaker_segments(id)
CallGetSpeakerSegments(id) ==
    /\ tr # NoneVal
    /\ returned' = [op |-> "get_speaker_segments", arg |-> id,
                    value |-> get_speaker_segments(tr, id)]
    /\ UNCHANGED <<processor, job, config, cuda_available, constructed,
                   init_error, device, scope, escaped, aggregation>>

\* result.get_transcript_by_speaker()
CallGetTranscriptBySpeaker ==
    /\ tr # NoneVal
    /\ returned' = [op |-> "get_transcript_by_speaker",
                    value |-> get_transcript_by_speaker(tr)]
    /\ UNCHANGED <<processor, job, config, cuda_available, constructed,
                   init_error, device, scope, escaped, aggregation>>

\* result.to_dict()
CallToDict ==
    /\ tr # NoneVal
    /\ returned' = [op |-> "to_dict", value |-> to_dict(tr)]
    /\ UNCHANGED <<processor, job, config, cuda_available, constructed,
                   init_error, device, scope, escaped, aggregation>>

\* result.full_text = text: an assignment the dataclass accepts; no metric
\* is computed again.
SetFullText(text) ==
    /\ tr # NoneVal
    /\ text # tr.full_text
    /\ tr' = [tr EXCEPT !.full_text = text]
    /\ UNCHANGED <<processor, job, configuration, scope, escaped, agg_in>>

NextResult ==
    \/ NewResult
    \/ \E id \in SpeakerIds : CallGetSpeakerSegments(id)
    \/ CallGetTranscriptBySpeaker
    \/ CallToDict
    \/ \E text \in DirectTexts : SetFullText(text)

SpecResult == InitResult /\ [][NextResult]_vars

\* ---------------------------------------------------------- ProcessingJob
\* No code of the repository constructs a ProcessingJob or calls its
\* methods: a caller drives it.  The caller of the model does its job
\* bookkeeping before it submits files (CallerReady); process_file itself
\* never reads or writes a job.
CallerReady == pc = "idle"

\* What the caller hands to mark_completed and mark_failed.
CallerResults ==
    { [kind |-> "result", of |-> NoneVal, audio_duration |-> d, processing_time |-> 0] :
        d \in {1, 2} }
CallerErrors == {"STT processing failed: a", "STT processing failed: b"}

\* ProcessingJob(job_id, file_path): the dataclass defaults
FreshJob(f) ==
    [status |-> "pending", file_path |-> f.name, started_at |-> None,
     completed_at |-> None, error_message |-> None, result |-> NoneVal]

\* The job after mark_started
Started(j) == [j EXCEPT !.status = "processing", !.started_at = "utcnow"]

\* The job after mark_completed(r)
Completed(j, r) ==
    [j EXCEPT !.status = "completed", !.completed_at = "utcnow", !.result = r]

\* The job after mark_failed(msg)
FailedNoTimestamp(j, msg) ==
    [j EXCEPT !.status = "failed", !.error_message = msg]

Failed(j, msg) ==
    [j EXCEPT !.status = "failed", !.completed_at = "utcnow",
              !.error_message = msg]

NewJob(f) ==
    /\ CallerReady
    /\ job = NoJob
    /\ job' = FreshJob(f)
    /\ UNCHANGED <<processor, rest>>

\* ProcessingJob.mark_started
MarkStarted ==
    /\ CallerReady
    /\ job # NoJob
    /\ job' = Started(job)
    /\ UNCHANGED <<processor, rest>>

\* ProcessingJob.mark_completed
MarkCompleted(r) ==
    /\ CallerReady
    /\ job # NoJob
    /\ job' = Completed(job, r)
    /\ UNCHANGED <<processor, rest>>

\* ProcessingJob.mark_failed
MarkFailed(msg) ==
    /\ CallerReady
    /\ job # NoJob
    /\ job' = Failed(job, msg)
    /\ UNCHANGED <<processor, rest>>

Next ==
    \/ \E f \in Files : ProcessFileStart(f)
    \/ LoadWhisperModel
    \/ LoadWhisperxModels
    \/ PreprocessAudio
    \/ Transcribe
    \/ Align
    \/ Diarize
    \/ ParseResults
    \/ UpdateStats
    \/ LogAndReturn
    \/ HandleException
    \/ Cleanup
    \/ \E f \in JobFiles : NewJob(f)
    \/ MarkStarted
    \/ \E r \in CallerResults : MarkCompleted(r)
    \/ \E msg \in CallerErrors : MarkFailed(msg)

Spec == Init /\ [][Next]_vars

\* One processor used as a scoped resource: every call is made by the body
\* of the with-statement.
NextScope ==
    \/ Enter
    \/ \E f \in Files : BodyCall(f)
    \/ LoadWhisperModel
    \/ LoadWhisperxModels
    \/ PreprocessAudio
    \/ Transcribe
    \/ Align
    \/ Diarize
    \/ ParseResults
    \/ UpdateStats
    \/ LogAndReturn
    \/ HandleException
    \/ \E x \in BodyExceptions : BodyRaises(x)
    \/ Exit

SpecScope == Init /\ [][NextScope]_vars

\* A processor with the default configuration, on a machine with or without
\* a GPU.
InitGpu ==
    /\ InitProcessor
    /\ config = DefaultConfig
    /\ cuda_available \in BOOLEAN
    /\ constructed = "ok"
    /\ init_error = validate(config)
    /\ device = get_device(config, cuda_available)
    /\ returned = NoReturn
    /\ agg_in = <<>>
    /\ tr = NoneVal

NextGpu ==
    \/ \E f \in Files : ProcessFileStart(f)
    \/ LoadWhisperModel
    \/ LoadWhisperxModels
    \/ PreprocessAudio
    \/ Transcribe
    \/ Align
    \/ Diarize
    \/ ParseResults
    \/ UpdateStats
    \/ LogAndReturn
    \/ HandleException
    \/ Cleanup

SpecGpu == InitGpu /\ [][NextGpu]_vars


\* ================================================================= claims
\* The operations the running call has invoked so far.
Invoked(op) == {i \in DOMAIN events : events[i].op = op}

\* Every invocation of op comes after an invocation of pred that returned.
OnlyAfter(pred, op) ==
    \A i \in Invoked(op) : \E j \in 1..(i - 1) : events[j] = Event(pred, TRUE)

RECURSIVE SumOf(_, _)
SumOf(jobs, k) ==
    IF jobs = <<>> THEN 0 ELSE Head(jobs)[k] + SumOf(Tail(jobs), k)

\* C1: after N process_file calls that all returned a result, jobs_processed
\* is N, total_audio_duration and total_processing_time are the sums of the
\* per-job audio durations and processing times, and average_rtf is
\* total_processing_time / total_audio_duration.
C1_StatsAreExactSums ==
    (pc \in Ended /\ Len(okJobs) = nCalls) =>
        /\ processing_stats.jobs_processed = nCalls
        /\ processing_stats.total_audio_duration = SumOf(okJobs, 1)
        /\ processing_stats.total_processing_time = SumOf(okJobs, 2)
        /\ nCalls > 0 =>
             processing_stats.average_rtf =
                Ratio(SumOf(okJobs, 2), SumOf(okJobs, 1))

\* Two jobs of different length and processing time have both returned.
C1_Witness ==
    /\ pc = "returned"
    /\ nCalls = 2
    /\ Len(okJobs) = 2
    /\ okJobs[1] = <<2, 1>>
    /\ okJobs[2] = <<1, 2>>

\* C2: a process_file call that ends by raising leaves the four statistics
\* counters as they were when the call began.
C2_FailedJobLeavesStats ==
    pc = "raised" => processing_stats = stats0

\* C3: when a job reaches the statistics update with a zero cumulative
\* total_audio_duration, the call returns its result and average_rtf keeps
\* its previous value.
C3_ZeroDurationSkipsRtf ==
    (pc \in Ended /\ Invoked("stats") # {}
        /\ processing_stats.total_audio_duration = 0) =>
        /\ pc = "returned"
        /\ processing_stats.average_rtf = stats0.average_rtf

\* C4: within one job transcription, alignment and diarization run in that
\* order, each only after its predecessor returned and on its predecessor's
\* output; aggregation and the statistics update come only after
\* diarization returned.
C4_StrictStageSequence ==
    /\ OnlyAfter("decode", "transcribe")
    /\ OnlyAfter("transcribe", "align")
    /\ OnlyAfter("align", "diarize")
    /\ OnlyAfter("diarize", "parse")
    /\ OnlyAfter("parse", "stats")
    /\ transcription_result # NoneVal =>
          audio_data.kind = "audio" /\ transcription_result.of = audio_data
    /\ aligned_result # NoneVal =>
          transcription_result.kind = "transcription"
          /\ aligned_result.of = transcription_result
    /\ diarized_result # NoneVal =>
          aligned_result.kind = "aligned" /\ diarized_result.of = aligned_result
    /\ result # NoneVal =>
          diarized_result.kind = "diarized" /\ result.of = diarized_result
    /\ processing_stats # stats0 => Event("diarize", TRUE) \in
                                        {events[i] : i \in DOMAIN events}

\* A job ran all three stages and returned.
C4_Witness ==
    /\ pc = "returned"
    /\ Invoked("transcribe") # {} /\ Invoked("align") # {} /\ Invoked("diarize") # {}
    /\ result.of.of.of.of.path = audio_path.name

\* The place of each raise site in process_file's statement order.
Rank(site) ==
    CASE site = "load_whisper"  -> 1
      [] site = "load_whisperx" -> 2
      [] site = "load_align"    -> 3
      [] site = "load_diarize"  -> 4
      [] site \in {"exists_check", "format_check", "size_check", "decode"} -> 5
      [] site = "transcribe"    -> 6
      [] site = "align"         -> 7
      [] site = "diarize"       -> 8
      [] site = "parse"         -> 9
      [] site = "stats"         -> 10
      [] site = "log"           -> 11

\* C5: once a stage, a model load or the audio loading raises, no later
\* stage of that job is invoked, and no stage or load is invoked more than
\* once within one call.
C5_AbortNoRetry ==
    /\ \A i \in DOMAIN events : Cardinality(Invoked(events[i].op)) = 1
    /\ \A i \in DOMAIN events : ~events[i].ok => i = Len(events)
    /\ exc # NoExc =>
          /\ pc \in {"except", "raised"}
          /\ \A i \in DOMAIN events : Rank(events[i].op) <= Rank(raisedAt)

\* Alignment raised after the loads, the decode and the transcription ran.
C5_Witness ==
    /\ pc = "raised"
    /\ raisedAt = "align"
    /\ events[Len(events)] = Event("align", FALSE)
    /\ Invoked("transcribe") # {}

\* C6: a call ends either by returning a result, or by raising one
\* RuntimeError chained to the original exception; no exception is
\* swallowed and none escapes unwrapped.
C6_ResultOrWrappedError ==
    /\ pc = "returned" =>
          result.kind = "result" /\ exc = NoExc /\ error = NoError
    /\ pc = "raised" =>
          /\ exc # NoExc
          /\ error.type = "RuntimeError"
          /\ error.cause = exc
    /\ exc # NoExc => pc \in {"except", "raised"}
    /\ error # NoError => pc = "raised"

\* A ValueError of the input checks surfaced as the unified error.
C6_Witness ==
    /\ pc = "raised"
    /\ exc.type = "ValueError"
    /\ error.type = "RuntimeError"

\* C7: the error raised for a failed job carries the source file, the stage
\* that failed and the underlying error type.
C7_ErrorCarriesContext ==
    pc = "raised" =>
        /\ {"file", "stage"} \subseteq error.carries
        /\ error.cause.type = exc.type

\* C8: when process_file fails its ProcessingJob is 'failed' with the
\* wrapped message attached; when it succeeds its job is 'completed' with
\* the result attached.
C8_PipelineDrivesJob ==
    /\ (pc = "raised" /\ job # NoJob) =>
          job.status = "failed" /\ job.error_message # None
    /\ (pc = "returned" /\ job # NoJob) =>
          job.status = "completed" /\ job.result = result

\* C9: a file with an unsupported extension is rejected before any decode
\* and without any model load during that call.
C9_UnsupportedRejectedBeforeLoad ==
    (pc = "raised" /\ raisedAt = "format_check") =>
        /\ Invoked("decode") = {}
        /\ \A i \in DOMAIN events :
              events[i].op \notin
                 {"load_whisper", "load_whisperx", "load_align", "load_diarize"}

\* C10: a job that fails with an input error (missing file, unsupported
\* format, oversized file) leaves the model handles and the statistics
\* counters as they were before the call.
C10_InputErrorLeavesProcessor ==
    (pc = "raised"
        /\ raisedAt \in {"exists_check", "format_check", "size_check"}) =>
        /\ handles = handles0
        /\ processing_stats = stats0

\* Some engine was loaded a second time on the same processor.
C11_LoadedAtMostOnceEver ==
    \A e \in Engines : loadCount[e] <= 1

\* C11 (amended): an engine is loaded only while its handle is null, the load
\* makes the handle non-null, and a non-null handle becomes null only by
\* cleanup, which clears all four; so an engine is loaded at most once
\* between two cleanups, and again by the first process_file after a cleanup.
C11_LoadOnlyWhileNull ==
    [][\A e \in Engines :
          /\ loadCount'[e] # loadCount[e] =>
                /\ Handle(e) = None
                /\ Handle(e)' = Loaded
                /\ loadCount'[e] = loadCount[e] + 1
          /\ (Handle(e) # None /\ Handle(e)' = None) =>
                handles' = <<None, None, None, None>>]_vars

\* The second call on a processor whose engines are all loaded has passed
\* both ensure-loaded calls without a load.
C11_Witness ==
    /\ nCalls = 2
    /\ pc = "preprocess"
    /\ handles0 = <<Loaded, Loaded, Loaded, Loaded>>
    /\ \A e \in Engines : loadCount[e] = 1
    /\ events = <<>>

\* All four handles are null.
AllReleased == handles = <<None, None, None, None>>

\* C12: cleanup can be called whenever no call is running and does not raise;
\* it leaves all four handles null and nothing else changed; called on a
\* processor whose handles are already null (never loaded, or cleaned up
\* before) it changes nothing.
C12_CleanupReleasesIdempotent ==
    /\ []((constructed = "ok" /\ pc \in Ended) => ENABLED Cleanup)
    /\ [][Cleanup =>
            /\ AllReleased'
            /\ UNCHANGED <<processing_stats, pc, exc, error, loadCount>>
            /\ AllReleased => UNCHANGED vars]_vars

\* A processor that had loaded all engines and returned a result is cleaned.
C12_Witness ==
    /\ pc = "returned"
    /\ AllReleased
    /\ \A e \in Engines : loadCount[e] = 1

\* C13: the with-statement ends by exactly one cleanup: the handles are
\* released at the step that ends the scope, whether the body completed or
\* let an exception out, no handle is released while the scope is open, and
\* the exception of the body still travels on after __exit__.
C13_ScopeEndCleansUp ==
    /\ [](scope = "unwinding" => escaped \in BodyExceptions)
    /\ [][(scope # "exited" /\ scope' = "exited") =>
             (AllReleased' /\ escaped' = escaped)]_vars
    /\ [][(scope = "entered" /\ scope' # "exited") =>
             (\A e \in Engines : Handle(e) # None => Handle(e)' # None)]_vars

\* A body that loaded all engines let a failed call's error out, and the
\* scope has ended.
C13_Witness ==
    /\ scope = "exited"
    /\ escaped = "RuntimeError"
    /\ pc = "raised"
    /\ AllReleased
    /\ \A e \in Engines : loadCount[e] = 1

C15_JobMethodsSetFields ==
    /\ [][(\E f \in JobFiles : NewJob(f)) =>
             (/\ job'.status = "pending"
              /\ job'.started_at = None
              /\ job'.completed_at = None
              /\ job'.result = NoneVal
              /\ job'.error_message = None)]_vars
    /\ [][MarkStarted =>
             (job'.status = "processing" /\ job'.started_at = "utcnow")]_vars
    /\ [][\A r \in CallerResults : MarkCompleted(r) =>
             (/\ job'.status = "completed"
              /\ job'.result = r
              /\ job'.completed_at = "utcnow")]_vars
    /\ [][\A msg \in CallerErrors : MarkFailed(msg) =>
             (/\ job'.status = "failed"
              /\ job'.error_message = msg
              /\ job'.completed_at = "utcnow")]_vars

\* A job that was started has failed: it carries both timestamps and the
\* message, and no result.
C15_Witness ==
    /\ job # NoJob
    /\ job.status = "failed"
    /\ job.started_at = "utcnow"
    /\ job.completed_at = "utcnow"
    /\ job.error_message \in CallerErrors
    /\ job.result = NoneVal

\* The status changes a job is allowed to make.
AllowedTransitions ==
    {<<"pending", "processing">>, <<"processing", "completed">>,
     <<"processing", "failed">>}

\* C16: whatever sequence of mark_started / mark_completed / mark_failed is
\* called on a job, its status changes only pending -> processing,
\* processing -> completed or processing -> failed.
C16_OnlyAllowedTransitions ==
    [][(job # NoJob /\ job'.status # job.status) =>
          <<job.status, job'.status>> \in AllowedTransitions]_vars

\* Some setting of the four enumerated ones is outside its set.
BadEnum(c) ==
    \/ c.whisper_model \notin WhisperModels
    \/ c.compute_type \notin ComputeTypes
    \/ c.language \notin Languages
    \/ c.task \notin Tasks

\* C17: validate() raises a configuration error whenever the model
\* identifier, the precision mode, the language or the task is outside its
\* enumerated set, each of them alone being enough; constructing a processor
\* with such a configuration fails with that error, and no load is attempted
\* and no job is accepted on it.
C17_BadEnumRejected ==
    BadEnum(config) =>
        /\ returned.op = "validate" => returned.raised.type = "ValueError"
        /\ constructed # "ok"
        /\ constructed = "failed" => init_error.type = "ValueError"
        /\ nCalls = 0
        /\ pc = "idle"
        /\ \A e \in Engines : loadCount[e] = 0 /\ Handle(e) = None

\* Only the task is outside its set; validate() has raised and the
\* construction has failed.
C17_Witness ==
    /\ config.task \notin Tasks
    /\ config.whisper_model \in WhisperModels
    /\ config.compute_type \in ComputeTypes
    /\ config.language \in Languages
    /\ returned.op = "validate"
    /\ constructed = "failed"
    /\ init_error = ValueError("task")

\* C18: when validate() returns and both speaker bounds are set (not None,
\* the value 0 included), min_speakers <= max_speakers.
C18_ValidatedSpeakerBoundsOrdered ==
    (/\ returned.op = "validate"
     /\ returned.raised = NoExc
     /\ config.min_speakers # Unset
     /\ config.max_speakers # Unset) =>
        config.min_speakers[1] <= config.max_speakers[1]

\* C19 as stated: the GPU designator is returned exactly for 'auto' with
\* GPU use enabled and a GPU available.
C19_GpuIffAutoEnabledAvailable ==
    returned.op = "get_device" =>
        /\ returned.value = "cuda" <=>
              (config.whisper_device = "auto" /\ config.use_gpu /\ cuda_available)
        /\ (config.whisper_device = "auto" /\ returned.value # "cuda") =>
              returned.value = "cpu"
        /\ config.whisper_device # "auto" =>
              returned.value = config.whisper_device

\* C19 (amended): for device 'auto', get_device() returns the GPU designator
\* iff GPU use is enabled and a GPU is available, and the CPU designator
\* otherwise; an explicit device is returned unchanged, so an explicit 'cuda'
\* gives the GPU designator whatever use_gpu and the availability are.  A
\* processor keeps what get_device() returned at its construction.
C19_DeviceResolution ==
    /\ returned.op = "get_device" =>
          IF config.whisper_device = "auto"
          THEN /\ returned.value \in {"cuda", "cpu"}
               /\ returned.value = "cuda" <=> (config.use_gpu /\ cuda_available)
          ELSE returned.value = config.whisper_device
    /\ (constructed = "ok" /\ returned.op = "get_device") =>
          device = returned.value

\* 'auto' with a GPU present but GPU use switched off resolves to the CPU.
C19_Witness ==
    /\ returned.op = "get_device"
    /\ config.whisper_device = "auto"
    /\ cuda_available
    /\ ~config.use_gpu
    /\ returned.value = "cpu"
    /\ constructed = "ok"

\* n / d for d # 0, as a reduced fraction with a positive denominator
Quotient(n, d) == IF d > 0 THEN Ratio(n, d) ELSE Ratio(0 - n, 0 - d)

\* C20: the overall_confidence of an aggregated result is
\* sum(confidence_i * duration_i) / sum(duration_i), and 0 when there are no
\* segments or the durations sum to zero; from zero segments the aggregator
\* builds a result with empty full_text, no speakers and zero counts.
C20_ConfidenceIsWeightedMean ==
    tr # NoneVal =>
        /\ tr.overall_confidence =
              IF tr.segments = <<>> \/ SumDuration(tr.segments) = 0
              THEN Zero
              ELSE Quotient(SumWeighted(tr.segments), SumDuration(tr.segments))
        /\ agg_in = <<>> =>
              /\ tr.segments = <<>>
              /\ tr.full_text = <<>>
              /\ tr.speakers = <<>>
              /\ tr.word_count = 0
              /\ tr.speaker_count = 0

\* C21: word_count is the number of whitespace-separated tokens of full_text
\* and speaker_count the number of distinct identifiers in speakers, for
\* every result as its constructor leaves it: with or without segments, with
\* duplicates in speakers, with metric values passed by the caller.
C21_CountsMatchTextAndSpeakers ==
    [][(tr = NoneVal /\ tr' # NoneVal) =>
          (/\ tr'.word_count = WordCount(tr'.full_text)
           /\ tr'.speaker_count = Cardinality(Elements(tr'.speakers)))]_vars

\* The three derived metrics of r are what its segments, full_text and
\* speakers determine.
Consistent(r) ==
    /\ r.word_count = WordCount(r.full_text)
    /\ r.speaker_count = Cardinality(Elements(r.speakers))
    /\ r.overall_confidence =
          IF r.segments = <<>> \/ SumDuration(r.segments) = 0
          THEN Zero
          ELSE Quotient(SumWeighted(r.segments), SumDuration(r.segments))

\* C22: a result whose metrics are consistent with its segments, full_text
\* and speakers stays so: after construction these three fields and the
\* metrics never change.
C22_MetricsStayConsistent ==
    [][(tr # NoneVal /\ tr' # NoneVal /\ Consistent(tr)) =>
          (/\ Consistent(tr')
           /\ tr'.segments = tr.segments
           /\ tr'.full_text = tr.full_text
           /\ tr'.speakers = tr.speakers)]_vars

\* The distinct speaker identifiers of segs in order of first appearance.
RECURSIVE FirstAppearance(_)
FirstAppearance(segs) ==
    IF segs = <<>> THEN <<>>
    ELSE LET front == FirstAppearance(SubSeq(segs, 1, Len(segs) - 1))
             id == segs[Len(segs)].speaker_id
         IN  IF id \in Elements(front) THEN front ELSE Append(front, id)

\* C23: the speakers of an aggregated result are the distinct speaker
\* identifiers of its segments, each once, in order of first appearance.
C23_SpeakersInFirstAppearanceOrder ==
    tr # NoneVal => tr.speakers = FirstAppearance(tr.segments)

\* t is body with whitespace before and after it, and body has none at
\* either end.
Trimmed(t, body) ==
    /\ body = <<>> \/ (body[1] # " " /\ body[Len(body)] # " ")
    /\ \E a, b \in 0..Len(t) :
          /\ a + Len(body) + b = Len(t)
          /\ \A i \in 1..Len(t) :
                IF i <= a \/ i > a + Len(body)
                THEN t[i] = " "
                ELSE t[i] = body[i - a]

\* The contributions of segs from the k-th on, each but the very first
\* preceded by one space.
RECURSIVE Contributions(_, _)
Contributions(segs, k) ==
    IF k > Len(segs) THEN <<>>
    ELSE (IF k > 1 THEN <<" ">> ELSE <<>>)
         \o <<"[" \o segs[k].speaker_id \o "]:", " ">> \o segs[k].text
         \o Contributions(segs, k + 1)

\* The positions of the segments of r that speaker id owns.
Owned(r, id) == {i \in DOMAIN r.segments : r.segments[i].speaker_id = id}

\* C24: get_speaker_segments(id) returns the segments of speaker id, each
\* once and no other, in their order in segments, and leaves the result as
\* it was.
C24_SpeakerSegmentsExact ==
    [][\A id \in SpeakerIds : CallGetSpeakerSegments(id) =>
          (/\ Len(returned'.value) = Cardinality(Owned(tr, id))
           /\ \A i \in Owned(tr, id) :
                 returned'.value[Cardinality({j \in Owned(tr, id) : j <= i})]
                    = tr.segments[i]
           /\ tr' = tr)]_vars

\* Of a segment of B followed by one of A, the one of A was returned.
C24_Witness ==
    /\ returned.op = "get_speaker_segments"
    /\ returned.arg = "A"
    /\ tr # NoneVal
    /\ Len(tr.segments) = 2
    /\ tr.segments[1].speaker_id = "B"
    /\ returned.value = <<tr.segments[2]>>

\* The texts of the segments of speaker sp, in segment order, one space
\* between two of them.
RECURSIVE SpeakerText(_, _, _)
SpeakerText(segs, sp, started) ==
    IF segs = <<>> THEN <<>>
    ELSE IF Head(segs).speaker_id = sp
         THEN (IF started THEN <<" ">> ELSE <<>>) \o Head(segs).text
              \o SpeakerText(Tail(segs), sp, TRUE)
         ELSE SpeakerText(Tail(segs), sp, started)

\* C25: get_transcript_by_speaker() has exactly one entry per member of
\* speakers, the space-joined texts of that speaker's segments in segment
\* order, and leaves the result as it was.
C25_TranscriptBySpeaker ==
    [][CallGetTranscriptBySpeaker =>
          (/\ DOMAIN returned'.value = Elements(tr.speakers)
           /\ \A sp \in Elements(tr.speakers) :
                 returned'.value[sp] = SpeakerText(tr.segments, sp, FALSE)
           /\ tr' = tr)]_vars

\* Two segments of A were joined, and B, who owns no segment, has an
\* empty transcript.
C25_Witness ==
    /\ returned.op = "get_transcript_by_speaker"
    /\ tr # NoneVal
    /\ tr.speakers = <<"A", "B">>
    /\ Len(tr.segments) = 2
    /\ returned.value["A"] = <<"oi", " ", "bom", " ", "dia">>
    /\ returned.value["B"] = <<>>

\* C26: the dict of to_dict() holds the result's audio duration, processing
\* time, confidence, counts and speaker list, and one entry per segment, in
\* order, with that segment's start, end, speaker, text, confidence and
\* words; to_dict() leaves the result as it was.
C26_ToDictReadsBack ==
    [][CallToDict =>
          (/\ returned'.value.audio_duration = tr.audio_duration
           /\ returned'.value.processing_time = tr.processing_time
           /\ returned'.value.overall_confidence = tr.overall_confidence
           /\ returned'.value.word_count = tr.word_count
           /\ returned'.value.speaker_count = tr.speaker_count
           /\ returned'.value.speakers = tr.speakers
           /\ Len(returned'.value.segments) = Len(tr.segments)
           /\ \A i \in DOMAIN tr.segments :
                 /\ returned'.value.segments[i].start_time = tr.segments[i].start_time
                 /\ returned'.value.segments[i].end_time = tr.segments[i].end_time
                 /\ returned'.value.segments[i].speaker_id = tr.segments[i].speaker_id
                 /\ returned'.value.segments[i].text = tr.segments[i].text
                 /\ returned'.value.segments[i].confidence = tr.segments[i].confidence
                 /\ returned'.value.segments[i].words = tr.segments[i].words
           /\ tr' = tr)]_vars

\* A result of two segments, the second with word entries, was serialized.
C26_Witness ==
    /\ returned.op = "to_dict"
    /\ tr # NoneVal
    /\ Len(returned.value.segments) = 2
    /\ returned.value.segments[2].words = <<[word |-> "bom"], [word |-> "dia"]>>
    /\ returned.value.speakers = <<"A", "B">>
    /\ returned.value.overall_confidence = tr.overall_confidence

\* C27: no step of the processor lowers jobs_processed,
\* total_audio_duration or total_processing_time, and cleanup(), called
\* directly or by the end of a with-block, leaves all four statistics as
\* they were.
C27_StatsNeverReset ==
    /\ [][/\ processing_stats'.jobs_processed >= processing_stats.jobs_processed
           /\ processing_stats'.total_audio_duration
                 >= processing_stats.total_audio_duration
           /\ processing_stats'.total_processing_time
                 >= processing_stats.total_processing_time]_vars
    /\ [][(Cleanup \/ Exit) => processing_stats' = processing_stats]_vars

\* Two jobs have returned, with a cleanup after each: the handles are null,
\* every engine was loaded twice and the statistics count both jobs.
C27_Witness ==
    /\ pc = "returned"
    /\ AllReleased
    /\ \A e \in Engines : loadCount[e] = 2
    /\ processing_stats.jobs_processed = 2
    /\ processing_stats.total_audio_duration = 3

\* The model loads and stage calls of a job.
HeavyOps ==
    {"load_whisper", "load_whisperx", "load_align", "load_diarize",
     "transcribe", "align", "diarize"}

\* The i-th operation of the running call lies in a bracket: going back
\* from it over model-backed operations only there is a cache clear, and
\* going forward over model-backed operations only there is a cache clear
\* followed at once by a garbage-collection pass.
InBracket(i) ==
    /\ \E j \in 1..(i - 1) :
          /\ events[j].op = "empty_cache"
          /\ \A m \in (j + 1)..(i - 1) : events[m].op \in HeavyOps
    /\ \E j \in (i + 1)..(Len(events) - 1) :
          /\ events[j].op = "empty_cache"
          /\ events[j + 1].op = "gc_collect"
          /\ \A m \in (i + 1)..(j - 1) : events[m].op \in HeavyOps

\* A model-backed operation that failed is the last one of its call, and
\* the call has its exception.
FailurePropagates(i) ==
    (events[i].op \in HeavyOps /\ ~events[i].ok) =>
        /\ \A m \in (i + 1)..Len(events) : events[m].op \notin HeavyOps
        /\ pc \in {"except", "raised"}
        /\ raisedAt = events[i].op
        /\ exc # NoExc

\* C28 as stated: every model load and stage call lies in a bracket, on
\* every machine.
C28_AlwaysBracketed ==
    \A i \in DOMAIN events :
        /\ events[i].op \in HeavyOps => InBracket(i)
        /\ FailurePropagates(i)

\* C28 (amended): on a machine with a GPU every model load and every stage
\* call lies in a bracket, on the success and on the exception path, and a
\* failing operation's exception still reaches the job's except clause; on
\* a machine without a GPU the discipline does nothing: no cache clear and
\* no garbage-collection pass.
C28_BracketedWithGpu ==
    \A i \in DOMAIN events :
        /\ (cuda_available /\ events[i].op \in HeavyOps) => InBracket(i)
        /\ ~cuda_available => events[i].op \notin {"empty_cache", "gc_collect"}
        /\ FailurePropagates(i)

\* On a machine with a GPU the alignment of a job has raised, after the
\* loads and the transcription had succeeded.
C28_Witness ==
    /\ cuda_available
    /\ pc = "raised"
    /\ raisedAt = "align"
    /\ Len(events) >= 4
    /\ events[Len(events) - 2] = Event("align", FALSE)
    /\ events[Len(events) - 1] = Event("empty_cache", TRUE)
    /\ events[Len(events)] = Event("gc_collect", TRUE)
    /\ \E i \in DOMAIN events : events[i] = Event("load_diarize", TRUE)

\* C29: the aggregated result has one segment per input segment, in input
\* order, with the input's times; a segment without speaker label has the
\* label SPEAKER_UNKNOWN, and every label of a segment is in speakers; the
\* text is the input text without surrounding whitespace; full_text is the
\* contributions '[speaker]: text' in segment order, one space between them.
C29_AggregatorBuildsSegments ==
    tr # NoneVal =>
        /\ Len(tr.segments) = Len(agg_in)
        /\ \A i \in DOMAIN agg_in :
              /\ tr.segments[i].start_time = agg_in[i].start
              /\ tr.segments[i].end_time = agg_in[i].end
              /\ tr.segments[i].speaker_id =
                    IF agg_in[i].speaker = <<>> THEN "SPEAKER_UNKNOWN"
                    ELSE agg_in[i].speaker[1]
              /\ tr.segments[i].speaker_id \in Elements(tr.speakers)
              /\ Trimmed(agg_in[i].text, tr.segments[i].text)
        /\ tr.speaker_count = Len(tr.speakers)
        /\ tr.full_text = Contributions(tr.segments, 1)

\* An unlabelled segment and one with whitespace around its text have been
\* aggregated.
C29_Witness ==
    /\ tr # NoneVal
    /\ Len(agg_in) = 2
    /\ agg_in[1].speaker = <<>>
    /\ agg_in[2].text = <<" ", "bom", " ", "dia", " ">>
    /\ tr.full_text =
          <<"[SPEAKER_UNKNOWN]:", " ", "sim", " ", "[B]:", " ", "bom", " ", "dia">>
    /\ Elements(tr.speakers) = {"SPEAKER_UNKNOWN", "B"}

\* C30: every segment of an aggregated result has start_time < end_time.
C30_SegmentsHavePositiveDuration ==
    tr # NoneVal =>
        \A i \in DOMAIN tr.segments :
            tr.segments[i].start_time < tr.segments[i].end_time

\* C31: once the ensure-loaded calls of a job have returned, the three
\* WhisperX handles are all loaded, so every stage that is invoked finds
\* its handle non-null, also in a job after one whose loading failed
\* part-way.
C31_StagesFindHandles ==
    /\ pc \in {"preprocess", "transcribe", "align", "diarize"} =>
          /\ whisperx_model # None
          /\ align_model # None
          /\ diarize_model # None
    /\ \A i \in DOMAIN events :
          /\ events[i].op = "transcribe" => whisperx_model # None
          /\ events[i].op = "align" => align_model # None
          /\ events[i].op = "diarize" => diarize_model # None

\* C32: the fields of a job agree with its status: result is set iff the
\* status is 'completed', error_message iff it is 'failed', completed_at iff
\* it is 'completed' or 'failed', and started_at whenever it is not
\* 'pending'.
C32_JobFieldsAgreeWithStatus ==
    job # NoJob =>
        /\ job.result # NoneVal <=> job.status = "completed"
        /\ job.error_message # None <=> job.status = "failed"
        /\ job.completed_at # None <=> job.status \in {"completed", "failed"}
        /\ job.status # "pending" => job.started_at # None

\* The lengths of the per-speaker views of r for the speakers from the k-th
\* on, added up.
RECURSIVE ViewsTotal(_, _)
ViewsTotal(r, k) ==
    IF k > Len(r.speakers) THEN 0
    ELSE Len(get_speaker_segments(r, r.speakers[k])) + ViewsTotal(r, k + 1)

\* C33: in an aggregated result every segment's speaker is a member of
\* speakers, every member of speakers owns a segment and is listed once,
\* and the per-speaker views partition the segments: each segment is in the
\* view of its speaker, two views share no segment, and the views together
\* are as long as segments.
C33_ViewsPartitionSegments ==
    tr # NoneVal =>
        /\ \A i \in DOMAIN tr.segments :
              /\ tr.segments[i].speaker_id \in Elements(tr.speakers)
              /\ tr.segments[i] \in
                    Elements(get_speaker_segments(tr, tr.segments[i].speaker_id))
        /\ \A k \in DOMAIN tr.speakers :
              /\ get_speaker_segments(tr, tr.speakers[k]) # <<>>
              /\ \A m \in DOMAIN tr.speakers :
                    m # k =>
                      /\ tr.speakers[m] # tr.speakers[k]
                      /\ Elements(get_speaker_segments(tr, tr.speakers[k]))
                            \cap Elements(get_speaker_segments(tr, tr.speakers[m]))
                          = {}
        /\ ViewsTotal(tr, 1) = Len(tr.segments)

\* Three segments of three speakers, one of them unlabelled, have been
\* aggregated.
C33_Witness ==
    /\ tr # NoneVal
    /\ Len(tr.segments) = 3
    /\ Elements(tr.speakers) = {"A", "B", "SPEAKER_UNKNOWN"}
    /\ Len(get_speaker_segments(tr, "SPEAKER_UNKNOWN")) = 1

=============================================================================
